---- MODULE Spec2Model ----
(***************************************************************************)
(* Model of the LSF agent (src/main.rs): one polling run that loads the    *)
(* configuration, queries ls_load, builds one status record per host (or   *)
(* one synthetic record), aggregates the verdicts into an exit code,       *)
(* serializes the report and prints it.                                    *)
(*                                                                         *)
(* Text is modelled as follows.  Host names, the prefix and record names   *)
(* are sequences of bytes (0..255), as a Rust String / CStr is; remarks,   *)
(* status names and the critical group name are TLA+ strings.              *)
(* Status values are i32 values (-2^31 .. 2^31-1).                         *)
(***************************************************************************)
EXTENDS Integers, Sequences, FiniteSets, TLC

VARIABLES
    pc,                    \* position of the run inside run()/main()
    config,                \* the parsed Config, NoConfig before parsing
    host_ptr,              \* pointer returned by ls_load: "null" or "valid"
    numhosts,              \* host count written by ls_load
    host_load_vals,        \* the hostLoad array behind host_ptr
    status_storage_infos,  \* the report built by run()
    exit_code,             \* exit code computed by run() (NoCode before)
    report_str,            \* serialized report (<<>> before serialization)
    err,                   \* error chain returned by run(), <<>> if none
    stdout,                \* lines written to standard output
    stderr,                \* lines written to standard error
    proc_exit,             \* status the process ended with (NoCode before)
    loads,                 \* number of config loads started
    queries,               \* number of ls_load calls
    writes,                \* number of println! calls
    tr_status,             \* translator harness: input status
    tr_str                 \* translator harness: output of to_status_str

vars == <<pc, config, host_ptr, numhosts, host_load_vals, status_storage_infos,
          exit_code, report_str, err, stdout, stderr, proc_exit, loads,
          queries, writes, tr_status, tr_str>>

-----------------------------------------------------------------------------
(* Bounds of the model *)

\* largest host count ls_load reports
MaxHosts == 2
\* largest number of known flags OR-ed together into a translator input
MaxOr == 2

-----------------------------------------------------------------------------
(* LSF status flags, main.rs:66-81 *)

LIM_OK == 0
LIM_UNAVAIL == 65536
LIM_LOCKEDU == 131072
LIM_LOCKEDW == 262144
LIM_BUSY == 524288
LIM_RESDOWN == 1048576
LIM_UNLICENSED == 2097152
LIM_SBDDOWN == 4194304
LIM_LOCKEDM == 8388608
LIM_PEMDOWN == 16777216
LIM_EXPIRED == 33554432
LIM_RLAUP == 67108864
\* 0x80000000 as an i32 (overflowing literal): the sign bit alone
LIM_LOCKEDU_RMS == -2147483647 - 1

\* status values, main.rs:86-88
PASSED == 0
FAILED == 2

\* exit codes, main.rs:91-93
NORMAL == 0
ERROR == 127

-----------------------------------------------------------------------------
(* 4.1 Status code translator *)

\* bit k (0..30) of an i32 value in two's complement
HasBit(x, k) == (x \div (2 ^ k)) % 2 = 1

\* bitwise OR of two i32 values
BitOr(a, b) ==
    LET low(k) == IF HasBit(a, k) \/ HasBit(b, k) THEN 2 ^ k ELSE 0
        RECURSIVE Sum(_)
        Sum(k) == IF k < 0 THEN 0 ELSE low(k) + Sum(k - 1)
    IN  Sum(30) + (IF a < 0 \/ b < 0 THEN LIM_LOCKEDU_RMS ELSE 0)

\* variant of to_status_str that tests flag bits instead of the whole mask
to_status_str_bit_test(status) ==
    CASE status = LIM_OK -> "LIM_OK"
      [] HasBit(status, 16) -> "LIM_UNAVAIL"
      [] HasBit(status, 17) -> "LIM_LOCKEDU"
      [] HasBit(status, 18) -> "LIM_LOCKEDW"
      [] HasBit(status, 19) -> "LIM_BUSY"
      [] HasBit(status, 20) -> "LIM_RESDOWN"
      [] HasBit(status, 21) -> "LIM_UNLICENSED"
      [] HasBit(status, 22) -> "LIM_SBDDOWN"
      [] HasBit(status, 23) -> "LIM_LOCKEDM"
      [] HasBit(status, 24) -> "LIM_PEMDOWN"
      [] HasBit(status, 25) -> "LIM_EXPIRED"
      [] HasBit(status, 26) -> "LIM_RLAUP"
      [] status < 0 -> "LIM_LOCKEDU_RMS"
      [] OTHER -> "UNKNOWN"

to_status_str(status) ==
    CASE status = LIM_OK -> "LIM_OK"
      [] status = LIM_UNAVAIL -> "LIM_UNAVAIL"
      [] status = LIM_LOCKEDU -> "LIM_LOCKEDU"
      [] status = LIM_LOCKEDW -> "LIM_LOCKEDW"
      [] status = LIM_BUSY -> "LIM_BUSY"
      [] status = LIM_RESDOWN -> "LIM_RESDOWN"
      [] status = LIM_UNLICENSED -> "LIM_UNLICENSED"
      [] status = LIM_SBDDOWN -> "LIM_SBDDOWN"
      [] status = LIM_LOCKEDM -> "LIM_LOCKEDM"
      [] status = LIM_PEMDOWN -> "LIM_PEMDOWN"
      [] status = LIM_EXPIRED -> "LIM_EXPIRED"
      [] status = LIM_RLAUP -> "LIM_RLAUP"
      [] status = LIM_LOCKEDU_RMS -> "LIM_LOCKEDU_RMS"
      [] OTHER -> "UNKNOWN"

-----------------------------------------------------------------------------
(* Text helpers: CStr::from_ptr, CStr::to_str, Debug for CStr *)

\* CStr::from_ptr: the bytes of the buffer before its first zero byte
RECURSIVE CStrBytes(_)
CStrBytes(buf) ==
    IF buf = <<>> \/ Head(buf) = 0 THEN <<>>
    ELSE <<Head(buf)>> \o CStrBytes(Tail(buf))

IsCont(b) == b >= 128 /\ b <= 191

\* CStr::to_str succeeds iff the bytes are well-formed UTF-8
RECURSIVE Utf8Valid(_)
Utf8Valid(s) ==
    IF s = <<>> THEN TRUE
    ELSE LET b == s[1] IN
      CASE b < 128 -> Utf8Valid(Tail(s))
        [] b >= 194 /\ b <= 223 ->
             /\ Len(s) >= 2
             /\ IsCont(s[2])
             /\ Utf8Valid(SubSeq(s, 3, Len(s)))
        [] b >= 224 /\ b <= 239 ->
             /\ Len(s) >= 3
             /\ IsCont(s[2])
             /\ (b = 224 => s[2] >= 160)
             /\ (b = 237 => s[2] <= 159)
             /\ IsCont(s[3])
             /\ Utf8Valid(SubSeq(s, 4, Len(s)))
        [] b >= 240 /\ b <= 244 ->
             /\ Len(s) >= 4
             /\ IsCont(s[2])
             /\ (b = 240 => s[2] >= 144)
             /\ (b = 244 => s[2] <= 143)
             /\ IsCont(s[3])
             /\ IsCont(s[4])
             /\ Utf8Valid(SubSeq(s, 5, Len(s)))
        [] OTHER -> FALSE

HexDigit(n) == IF n < 10 THEN 48 + n ELSE 87 + n

\* std::ascii::escape_default on one byte
EscapeDefault(b) ==
    CASE b = 9 -> <<92, 116>>
      [] b = 13 -> <<92, 114>>
      [] b = 10 -> <<92, 110>>
      [] b = 39 -> <<92, 39>>
      [] b = 34 -> <<92, 34>>
      [] b = 92 -> <<92, 92>>
      [] b >= 32 /\ b <= 126 /\ b \notin {39, 34, 92} -> <<b>>
      [] OTHER -> <<92, 120, HexDigit(b \div 16), HexDigit(b % 16)>>

RECURSIVE EscapeAll(_)
EscapeAll(s) ==
    IF s = <<>> THEN <<>> ELSE EscapeDefault(Head(s)) \o EscapeAll(Tail(s))

\* format!("{:?}", cstr): the escaped bytes between double quotes
CStrDebug(s) == <<34>> \o EscapeAll(s) \o <<34>>

-----------------------------------------------------------------------------
(* Data model: Option, StatusStorageInfo, Config, hostLoad *)

None == <<>>
Some(x) == <<x>>

\* StatusStorageInfo::new, main.rs:47-61
StatusStorageInfo(name, status, storage, critical_group_name, remarks) ==
    [name |-> name, status |-> status, storage |-> storage,
     critical_group_name |-> critical_group_name, remarks |-> remarks]

\* byte strings used by the inputs
TxtEmpty == <<>>
TxtPrefix == <<109, 46>>            \* "m."
TxtN1 == <<110, 49>>                \* "n1"
TxtN2 == <<110, 50>>                \* "n2"
TxtB1 == <<98, 49>>                 \* "b1"
TxtZZ == <<122, 122>>               \* "zz"
TxtYY == <<121, 121>>               \* "yy"
TxtAcute == <<195, 169>>            \* U+00E9, two bytes

\* Config values the parser can deliver (prefix, nameMapping, criticalGroupName)
Configs ==
    { [prefix |-> TxtPrefix,
       name_mapping |-> (TxtN1 :> TxtB1) @@ (TxtB1 :> TxtZZ)
                        @@ ((TxtPrefix \o TxtN2) :> TxtYY),
       critical_group_name |-> "grpA"],
      [prefix |-> TxtEmpty,
       name_mapping |-> (TxtAcute :> TxtN2),
       critical_group_name |-> "grpB"],
      [prefix |-> TxtPrefix,
       name_mapping |-> <<>>,
       critical_group_name |-> "grpA"] }

NoConfig == [prefix |-> TxtEmpty, name_mapping |-> <<>>, critical_group_name |-> ""]

\* host_name buffers ls_load can fill: NUL-terminated, bytes after the NUL are junk
HostNameBufs ==
    { TxtN1 \o <<0>>,
      TxtN2 \o <<0, 120>>,
      TxtAcute \o <<0>>,
      <<110, 255, 0>>,              \* 0xff is never valid UTF-8
      <<34, 195, 0, 169>> }         \* a quote, then a lead byte cut by the NUL

\* status values ls_load can report for a host
HostStatuses == { LIM_OK, LIM_BUSY, BitOr(LIM_BUSY, LIM_RESDOWN), LIM_LOCKEDU_RMS }

\* hostLoad, main.rs:32-37 (status dereferenced, li unused)
HostLoads == [host_name : HostNameBufs, status : HostStatuses]

RECURSIVE SeqsUpTo(_, _)
SeqsUpTo(S, n) ==
    IF n = 0 THEN { <<>> }
    ELSE LET shorter == SeqsUpTo(S, n - 1)
         IN  shorter \cup { Append(q, x) : q \in { r \in shorter : Len(r) = n - 1 }, x \in S }

-----------------------------------------------------------------------------
(* 4.2 Host identity resolver and 4.3 report builder, main.rs:159-204 *)

conv_status_ok_mask(status) ==
    \* variant: masks with LIM_OK_MASK 0x02bf0000 instead of comparing the value
    IF \A k \in {16, 17, 18, 19, 20, 21, 23, 25} : ~HasBit(status, k)
    THEN PASSED ELSE FAILED

\* main.rs:169
conv_status(status) == IF status = LIM_OK THEN PASSED ELSE FAILED

mapped_host_name_prefixed_key(cfg, host_name) ==
    \* variant: looks the prefixed name up
    IF (cfg.prefix \o host_name) \in DOMAIN cfg.name_mapping
    THEN cfg.name_mapping[cfg.prefix \o host_name]
    ELSE host_name

\* main.rs:175-178
mapped_host_name(cfg, host_name) ==
    IF host_name \in DOMAIN cfg.name_mapping
    THEN cfg.name_mapping[host_name]
    ELSE host_name

StatusRemarks_name_only(status, status_str) ==
    \* variant: the numeric code is left out of the remarks
    "Status code: (" \o status_str \o ")"

\* main.rs:185 and 193
StatusRemarks(status, status_str) ==
    "Status code: " \o ToString(status) \o " (" \o status_str \o ")"

HostRecord_lookup_on_err(cfg, host_load) ==
    \* variant: the Err arm resolves the raw bytes through the mapping as well
    LET status == host_load.status
        host_name_raw == CStrBytes(host_load.host_name)
    IN  StatusStorageInfo(
            cfg.prefix \o mapped_host_name(cfg, host_name_raw),
            conv_status(status), None, Some(cfg.critical_group_name),
            Some(StatusRemarks(status, to_status_str(status))))

\* the closure of main.rs:162-195
HostRecord(cfg, host_load) ==
    LET status == host_load.status
        status_str == to_status_str(status)
        host_name_raw == CStrBytes(host_load.host_name)
        critical_group_name == cfg.critical_group_name
    IN  IF Utf8Valid(host_name_raw)
        THEN StatusStorageInfo(
                 cfg.prefix \o mapped_host_name(cfg, host_name_raw),
                 conv_status(status), None, Some(critical_group_name),
                 Some(StatusRemarks(status, status_str)))
        ELSE StatusStorageInfo(
                 cfg.prefix \o CStrDebug(host_name_raw),
                 conv_status(status), None, Some(critical_group_name),
                 Some(StatusRemarks(status, status_str)))

\* main.rs:198-203
UnreachableRecord(cfg) ==
    StatusStorageInfo(cfg.prefix \o <<42>>, FAILED, None,
                      Some(cfg.critical_group_name),
                      Some("Unable to connect any of the LSF nodes"))

\* slice::from_raw_parts(ptr, numhosts as usize) when the call is defined
HostSlice(vals, n) == SubSeq(vals, 1, n)

BuildReport_reversed(cfg, n, vals) ==
    \* variant: collects the records back to front
    IF n > 0
    THEN [i \in 1..Len(HostSlice(vals, n)) |->
              HostRecord(cfg, HostSlice(vals, n)[Len(HostSlice(vals, n)) + 1 - i])]
    ELSE << UnreachableRecord(cfg) >>

\* main.rs:159-204
BuildReport(cfg, n, vals) ==
    IF n > 0
    THEN [i \in 1..Len(HostSlice(vals, n)) |-> HostRecord(cfg, HostSlice(vals, n)[i])]
    ELSE << UnreachableRecord(cfg) >>

-----------------------------------------------------------------------------
(* 4.4 Aggregator, main.rs:206-212 *)

all_passed(infos) == \A i \in 1..Len(infos) : infos[i].status = PASSED

ExitCodeOf_any(infos) ==
    \* variant: any() in place of all()
    IF \E i \in 1..Len(infos) : infos[i].status = PASSED THEN NORMAL ELSE ERROR

ExitCodeOf(infos) == IF all_passed(infos) THEN NORMAL ELSE ERROR

-----------------------------------------------------------------------------
(* 4.5 Serializer, main.rs:39-61 and 215 *)

\* one record as the ordered list of the fields serde writes:
\* camelCase names, an Option that is None is skipped
ToJsonObject(info) ==
    << <<"name", info.name>>, <<"status", info.status>> >>
    \o (IF info.storage = None THEN <<>> ELSE << <<"storage", info.storage[1]>> >>)
    \o (IF info.critical_group_name = None THEN <<>>
        ELSE << <<"criticalGroupName", info.critical_group_name[1]>> >>)
    \o (IF info.remarks = None THEN <<>> ELSE << <<"remarks", info.remarks[1]>> >>)

ToJson(infos) == [i \in 1..Len(infos) |-> ToJsonObject(infos[i])]

-----------------------------------------------------------------------------
(* The run: run() main.rs:136-221 and main() main.rs:223-240 *)

ConfigPath == "agent.json"

Init ==
    /\ pc = "open"
    /\ config = NoConfig
    /\ host_ptr = "null"
    /\ numhosts = 0
    /\ host_load_vals = <<>>
    /\ status_storage_infos = <<>>
    /\ exit_code = None
    /\ report_str = <<>>
    /\ err = <<>>
    /\ stdout = <<>>
    /\ stderr = <<>>
    /\ proc_exit = None
    /\ loads = 0
    /\ queries = 0
    /\ writes = 0
    /\ tr_status = 0
    /\ tr_str = ""

\* run() returns Err(chain): chain_err puts the new message in front of its cause
Fail(msg, cause) ==
    /\ err' = <<msg, cause>>
    /\ pc' = "failed"

\* main.rs:140-141, File::open(..).chain_err(..)?
OpenConfig ==
    /\ pc = "open"
    /\ loads' = loads + 1
    /\ \/ /\ pc' = "read"
          /\ err' = err
       \/ Fail("Unable to open config file at " \o ConfigPath, "io error")
    /\ UNCHANGED <<config, host_ptr, numhosts, host_load_vals, status_storage_infos,
                   exit_code, report_str, stdout, stderr, proc_exit, queries,
                   writes, tr_status, tr_str>>

\* main.rs:143-147, read_to_string(..).chain_err(..)?
ReadConfig ==
    /\ pc = "read"
    /\ \/ /\ pc' = "parse"
          /\ err' = err
       \/ Fail("Unable to read config file into string", "io error")
    /\ UNCHANGED <<config, host_ptr, numhosts, host_load_vals, status_storage_infos,
                   exit_code, report_str, stdout, stderr, proc_exit, loads, queries,
                   writes, tr_status, tr_str>>

\* main.rs:150-151, serde_json::from_str(..).chain_err(..)?
ParseConfig ==
    /\ pc = "parse"
    /\ \/ /\ \E c \in Configs : config' = c
          /\ pc' = "ls_load"
          /\ err' = err
       \/ /\ Fail("Unable to parse config content into structure!", "json error")
          /\ config' = config
    /\ UNCHANGED <<host_ptr, numhosts, host_load_vals, status_storage_infos,
                   exit_code, report_str, stdout, stderr, proc_exit, loads, queries,
                   writes, tr_status, tr_str>>

\* main.rs:153-154, the ls_load call.  On failure ls_load returns NULL and
\* leaves a count that is not positive; on success it returns an array of
\* numhosts entries (possibly none).
LsLoad ==
    /\ pc = "ls_load"
    /\ queries' = queries + 1
    /\ \/ /\ host_ptr' = "null"
          /\ numhosts' \in {-1, 0}
          /\ host_load_vals' = <<>>
       \/ /\ host_ptr' = "valid"
          /\ \E vals \in SeqsUpTo(HostLoads, MaxHosts) :
                /\ host_load_vals' = vals
                /\ numhosts' = Len(vals)
    /\ pc' = "from_raw_parts"
    /\ UNCHANGED <<config, status_storage_infos, exit_code, report_str, err, stdout,
                   stderr, proc_exit, loads, writes, tr_status, tr_str>>

\* slice::from_raw_parts requires a non-null pointer and a length whose byte
\* size fits isize; `numhosts as usize` of a negative count does not
SliceDefined(ptr, n) == ptr # "null" /\ n >= 0

\* main.rs:155.  When the call is undefined the build decides: the slice is
\* formed anyway (and is not read when the count is not positive), or the
\* precondition check of a build with debug assertions aborts the process.
FromRawParts ==
    /\ pc = "from_raw_parts"
    /\ \/ /\ pc' = "build"
          /\ proc_exit' = proc_exit
       \/ /\ ~SliceDefined(host_ptr, numhosts)
          /\ pc' = "aborted"
          /\ proc_exit' = Some(134)
    /\ UNCHANGED <<config, host_ptr, numhosts, host_load_vals, status_storage_infos,
                   exit_code, report_str, err, stdout, stderr, loads, queries,
                   writes, tr_status, tr_str>>

\* main.rs:159-204
Build ==
    /\ pc = "build"
    /\ status_storage_infos' = BuildReport(config, numhosts, host_load_vals)
    /\ pc' = "aggregate"
    /\ UNCHANGED <<config, host_ptr, numhosts, host_load_vals, exit_code, report_str,
                   err, stdout, stderr, proc_exit, loads, queries, writes,
                   tr_status, tr_str>>

\* main.rs:206-212
Aggregate ==
    /\ pc = "aggregate"
    /\ exit_code' = Some(ExitCodeOf(status_storage_infos))
    /\ pc' = "serialize"
    /\ UNCHANGED <<config, host_ptr, numhosts, host_load_vals, status_storage_infos,
                   report_str, err, stdout, stderr, proc_exit, loads, queries,
                   writes, tr_status, tr_str>>

\* main.rs:215-216, serde_json::to_string(..).chain_err(..)?
Serialize ==
    /\ pc = "serialize"
    /\ \/ /\ report_str' = ToJson(status_storage_infos)
          /\ pc' = "println"
          /\ err' = err
       \/ /\ Fail("Unable to serialize list of status storage into string!", "json error")
          /\ report_str' = report_str
    /\ UNCHANGED <<config, host_ptr, numhosts, host_load_vals, status_storage_infos,
                   exit_code, stdout, stderr, proc_exit, loads, queries, writes,
                   tr_status, tr_str>>

\* main.rs:218-220, println! then Ok(exit_code)
Println ==
    /\ pc = "println"
    /\ stdout' = Append(stdout, report_str)
    /\ writes' = writes + 1
    /\ pc' = "returned"
    /\ UNCHANGED <<config, host_ptr, numhosts, host_load_vals, status_storage_infos,
                   exit_code, report_str, err, stderr, proc_exit, loads, queries,
                   tr_status, tr_str>>

\* main.rs:225, Ok(exit_code) => process::exit(exit_code)
MainExit ==
    /\ pc = "returned"
    /\ proc_exit' = exit_code
    /\ pc' = "exited"
    /\ UNCHANGED <<config, host_ptr, numhosts, host_load_vals, status_storage_infos,
                   exit_code, report_str, err, stdout, stderr, loads, queries,
                   writes, tr_status, tr_str>>

\* main.rs:226-238, the error and its causes on stderr, then process::exit(1)
MainError ==
    /\ pc = "failed"
    /\ stderr' = stderr \o <<"Error: " \o err[1]>>
                        \o [i \in 1..(Len(err) - 1) |-> "- Caused by: " \o err[i + 1]]
    /\ proc_exit' = Some(1)
    /\ pc' = "exited"
    /\ UNCHANGED <<config, host_ptr, numhosts, host_load_vals, status_storage_infos,
                   exit_code, report_str, err, stdout, loads, queries, writes,
                   tr_status, tr_str>>

Next ==
    \/ OpenConfig
    \/ ReadConfig
    \/ ParseConfig
    \/ LsLoad
    \/ FromRawParts
    \/ Build
    \/ Aggregate
    \/ Serialize
    \/ Println
    \/ MainExit
    \/ MainError

Spec == Init /\ [][Next]_vars

-----------------------------------------------------------------------------
(* The translator on its own: to_status_str applied to one status value *)

KnownFlags ==
    { LIM_OK, LIM_UNAVAIL, LIM_LOCKEDU, LIM_LOCKEDW, LIM_BUSY, LIM_RESDOWN,
      LIM_UNLICENSED, LIM_SBDDOWN, LIM_LOCKEDM, LIM_PEMDOWN, LIM_EXPIRED,
      LIM_RLAUP, LIM_LOCKEDU_RMS }

\* all bitwise ORs of at most n known flags
RECURSIVE OrsUpTo(_)
OrsUpTo(n) ==
    IF n = 0 THEN { LIM_OK }
    ELSE { BitOr(a, f) : a \in OrsUpTo(n - 1), f \in KnownFlags }

\* i32 inputs: the flags, their combinations, their neighbours, the extremes
TranslatorInputs ==
    OrsUpTo(MaxOr)
    \cup { f + 1 : f \in KnownFlags }
    \cup { f - 1 : f \in KnownFlags \ {LIM_LOCKEDU_RMS} }
    \cup { 128, 2147483647 }

InitTranslator ==
    /\ pc = "translate"
    /\ tr_status \in TranslatorInputs
    /\ tr_str = ""
    /\ config = NoConfig
    /\ host_ptr = "null"
    /\ numhosts = 0
    /\ host_load_vals = <<>>
    /\ status_storage_infos = <<>>
    /\ exit_code = None
    /\ report_str = <<>>
    /\ err = <<>>
    /\ stdout = <<>>
    /\ stderr = <<>>
    /\ proc_exit = None
    /\ loads = 0
    /\ queries = 0
    /\ writes = 0

Translate ==
    /\ pc = "translate"
    /\ tr_str' = to_status_str(tr_status)
    /\ pc' = "translated"
    /\ UNCHANGED <<config, host_ptr, numhosts, host_load_vals, status_storage_infos,
                   exit_code, report_str, err, stdout, stderr, proc_exit, loads,
                   queries, writes, tr_status>>

NextTranslator == Translate

SpecTranslator == InitTranslator /\ [][NextTranslator]_vars

-----------------------------------------------------------------------------
(* Properties *)

\* the report has been built by run()
Built == pc = "aggregate" \/ exit_code # None

\* the process has ended
Terminal == pc \in {"exited", "aborted"}

\* run() returned an error chain
Fatal == err # <<>>

\* the documented table of status names (spec 3, StatusCode)
SymbolicNames ==
    { <<LIM_OK, "LIM_OK">>, <<LIM_UNAVAIL, "LIM_UNAVAIL">>,
      <<LIM_LOCKEDU, "LIM_LOCKEDU">>, <<LIM_LOCKEDW, "LIM_LOCKEDW">>,
      <<LIM_BUSY, "LIM_BUSY">>, <<LIM_RESDOWN, "LIM_RESDOWN">>,
      <<LIM_UNLICENSED, "LIM_UNLICENSED">>, <<LIM_SBDDOWN, "LIM_SBDDOWN">>,
      <<LIM_LOCKEDM, "LIM_LOCKEDM">>, <<LIM_PEMDOWN, "LIM_PEMDOWN">>,
      <<LIM_EXPIRED, "LIM_EXPIRED">>, <<LIM_RLAUP, "LIM_RLAUP">>,
      <<LIM_LOCKEDU_RMS, "LIM_LOCKEDU_RMS">> }

SymbolicNameOf(v) ==
    IF \E e \in SymbolicNames : e[1] = v
    THEN (CHOOSE e \in SymbolicNames : e[1] = v)[2]
    ELSE "UNKNOWN"

\* the raw identifier of entry i of the queried array
RawId(i) == CStrBytes(host_load_vals[i].host_name)

\* C1: whenever the data source has reported numhosts <= 0 with the config
\* loaded, the run does not abort and the report, once built, is exactly the
\* one synthetic record: name prefix + "*", status 2, no storage, the
\* configured critical group name, remarks "Unable to connect any of the LSF
\* nodes".
C1_UnreachableReport ==
    (queries = 1 /\ pc # "from_raw_parts" /\ numhosts <= 0) =>
        /\ pc # "aborted"
        /\ Built =>
             status_storage_infos =
                << [name |-> config.prefix \o <<42>>,
                    status |-> 2,
                    storage |-> None,
                    critical_group_name |-> Some(config.critical_group_name),
                    remarks |-> Some("Unable to connect any of the LSF nodes")] >>

\* C2: the exit code computed by run() is 0 iff every record of the report is
\* PASSED (0) and 127 iff some record is FAILED (2); a report for
\* numhosts <= 0 always yields 127; the process exits with that code when
\* run() returned it.
C2_ExitCodeFromVerdicts ==
    exit_code # None =>
        /\ exit_code \in {Some(0), Some(127)}
        /\ exit_code = Some(0) <=>
              \A i \in 1..Len(status_storage_infos) : status_storage_infos[i].status = 0
        /\ exit_code = Some(127) <=>
              \E i \in 1..Len(status_storage_infos) : status_storage_infos[i].status = 2
        /\ numhosts <= 0 => exit_code = Some(127)
        /\ (pc = "exited" /\ ~Fatal) => proc_exit = exit_code

\* a two-record report, first PASSED then FAILED, aggregated to 127
C2_Witness ==
    /\ exit_code = Some(127)
    /\ Len(status_storage_infos) = 2
    /\ status_storage_infos[1].status = 0
    /\ status_storage_infos[2].status = 2
    /\ pc = "exited"

\* C3: when numhosts > 0 the report has exactly numhosts records and record i
\* is the record of entry i of the queried array, in the array's order.
C3_OneRecordPerEntryInOrder ==
    (Built /\ numhosts > 0) =>
        /\ Len(status_storage_infos) = numhosts
        /\ \A i \in 1..numhosts :
              status_storage_infos[i] = HostRecord(config, host_load_vals[i])

\* two entries that differ in name and status, reported in that order
C3_Witness ==
    /\ Built
    /\ numhosts = 2
    /\ host_load_vals[1] = [host_name |-> TxtN2 \o <<0, 120>>, status |-> LIM_BUSY]
    /\ host_load_vals[2] = [host_name |-> TxtN1 \o <<0>>, status |-> LIM_OK]
    /\ status_storage_infos[1].status = 2
    /\ status_storage_infos[2].status = 0

\* C4: to_status_str returns, for each of the 13 known constants, its own
\* name (the 13 names are distinct), and "UNKNOWN" for every other i32 value,
\* including every OR of two or more distinct non-zero known constants.
C4_ExactMatchTranslation ==
    pc = "translated" =>
        /\ \A e \in SymbolicNames : tr_status = e[1] => tr_str = e[2]
        /\ (\A e \in SymbolicNames : tr_status # e[1]) => tr_str = "UNKNOWN"
        /\ Cardinality({ e[2] : e \in SymbolicNames } \cup {"UNKNOWN"}) = 14
        /\ \A a, b \in KnownFlags \ {LIM_OK} :
              (a # b /\ tr_status = BitOr(a, b)) => tr_str = "UNKNOWN"

\* busy and resource-down together translate to UNKNOWN
C4_Witness ==
    /\ pc = "translated"
    /\ tr_status = 1572864
    /\ tr_status = BitOr(LIM_BUSY, LIM_RESDOWN)
    /\ tr_str = "UNKNOWN"

\* C5: every record's status is 0 or 2, and a host record's status is 0
\* exactly when the entry's raw status value is 0 (LIM_OK), whether or not
\* its name decodes.
C5_VerdictIffOk ==
    Built =>
        /\ \A i \in 1..Len(status_storage_infos) :
              status_storage_infos[i].status \in {0, 2}
        /\ numhosts > 0 =>
              \A i \in 1..numhosts :
                 status_storage_infos[i].status = 0 <=> host_load_vals[i].status = 0

\* an undecodable entry with an UNKNOWN status and a decodable entry with
\* the legacy locked flag, both FAILED
C5_Witness ==
    /\ Built
    /\ numhosts = 2
    /\ ~Utf8Valid(RawId(1))
    /\ to_status_str(host_load_vals[1].status) = "UNKNOWN"
    /\ Utf8Valid(RawId(2))
    /\ host_load_vals[2].status = LIM_LOCKEDU_RMS
    /\ status_storage_infos[1].status = 2
    /\ status_storage_infos[2].status = 2

\* C6: for an entry whose identifier decodes, the reported name is the prefix
\* followed by the table's value for the raw identifier when the raw
\* identifier is a key, and by the raw identifier itself otherwise.
C6_PrefixAndMapping ==
    (Built /\ numhosts > 0) =>
        \A i \in 1..numhosts :
           Utf8Valid(RawId(i)) =>
              status_storage_infos[i].name =
                 IF RawId(i) \in DOMAIN config.name_mapping
                 THEN config.prefix \o config.name_mapping[RawId(i)]
                 ELSE config.prefix \o RawId(i)

\* "n1" is mapped to "b1" (itself a key, not followed), "n2" is no key
\* although the prefixed "m.n2" is one
C6_Witness ==
    /\ Built
    /\ numhosts = 2
    /\ RawId(1) = TxtN1
    /\ RawId(2) = TxtN2
    /\ TxtB1 \in DOMAIN config.name_mapping
    /\ (config.prefix \o TxtN2) \in DOMAIN config.name_mapping
    /\ status_storage_infos[1].name = <<109, 46, 98, 49>>
    /\ status_storage_infos[2].name = <<109, 46, 110, 50>>

\* the remarks text of a status value and a symbolic name
IsStatusRemarks(text) ==
    \E v \in HostStatuses \cup {0, 2, 127} :
       \E e \in SymbolicNames \cup { <<0, "UNKNOWN">> } :
          text = "Status code: " \o ToString(v) \o " (" \o e[2] \o ")"

\* C7 as stated: every record that carries remarks has remarks of the form
\* "Status code: <numeric> (<symbolic>)".
C7_AllRemarksCarryCode ==
    Built =>
        \A i \in 1..Len(status_storage_infos) :
           status_storage_infos[i].remarks # None =>
              IsStatusRemarks(status_storage_infos[i].remarks[1])

\* C7 amended: every per-host record carries the remarks
\* "Status code: <numeric> (<symbolic>)" of its entry's raw status value and
\* that value's symbolic name; the synthetic record carries the fixed
\* remarks "Unable to connect any of the LSF nodes" instead.
C7_HostRemarksCarryCode ==
    Built =>
        /\ numhosts > 0 =>
              \A i \in 1..numhosts :
                 status_storage_infos[i].remarks =
                    Some("Status code: " \o ToString(host_load_vals[i].status)
                         \o " (" \o SymbolicNameOf(host_load_vals[i].status) \o ")")
        /\ numhosts <= 0 =>
              /\ Len(status_storage_infos) = 1
              /\ status_storage_infos[1].remarks =
                    Some("Unable to connect any of the LSF nodes")

\* a negative status value and an unrecognised one, spelled out
C7_Witness ==
    /\ Built
    /\ numhosts = 2
    /\ host_load_vals[1].status = LIM_LOCKEDU_RMS
    /\ host_load_vals[2].status = BitOr(LIM_BUSY, LIM_RESDOWN)
    /\ status_storage_infos[1].remarks = Some("Status code: -2147483648 (LIM_LOCKEDU_RMS)")
    /\ status_storage_infos[2].remarks = Some("Status code: 1572864 (UNKNOWN)")

\* C8: a run ends with status 1 exactly when a fatal condition occurred; a
\* fatal run writes no report line, and a config failure precedes any query;
\* a run that ends without a fatal condition has written exactly one report
\* line and ends with 0 or 127.
C8_ExitOneIffFatal ==
    /\ Terminal => (proc_exit = Some(1) <=> Fatal)
    /\ Fatal => stdout = <<>>
    /\ (Fatal /\ exit_code = None) => queries = 0
    /\ (Terminal /\ ~Fatal) =>
          /\ Len(stdout) = 1
          /\ proc_exit \in {Some(0), Some(127)}

\* C9: an entry whose identifier does not decode still yields the record at
\* its position: name = prefix + debug form of the raw bytes, the status,
\* critical group name and remarks its status value gives; every other
\* record is what it would be had that entry decoded.
C9_UndecodableDegrades ==
    (Built /\ numhosts > 0) =>
        /\ Len(status_storage_infos) = numhosts
        /\ \A i \in 1..numhosts :
              ~Utf8Valid(RawId(i)) =>
                 LET decoded == [host_load_vals EXCEPT ![i].host_name = TxtN2 \o <<0>>]
                     other == BuildReport(config, numhosts, decoded)
                 IN  /\ status_storage_infos[i].name =
                           config.prefix \o <<34>> \o EscapeAll(RawId(i)) \o <<34>>
                     /\ status_storage_infos[i].status = other[i].status
                     /\ status_storage_infos[i].storage = None
                     /\ status_storage_infos[i].critical_group_name =
                           Some(config.critical_group_name)
                     /\ status_storage_infos[i].remarks = other[i].remarks
                     /\ \A j \in (1..numhosts) \ {i} : status_storage_infos[j] = other[j]

\* "n\xff" first, then the mapped "n1": both reported, the first by its
\* debug form "m.\"n\\xff\""
C9_Witness ==
    /\ pc = "exited"
    /\ Len(stdout) = 1
    /\ numhosts = 2
    /\ host_load_vals[1].host_name = <<110, 255, 0>>
    /\ RawId(2) = TxtN1
    /\ config.prefix = TxtPrefix
    /\ TxtN1 \in DOMAIN config.name_mapping
    /\ status_storage_infos[1].name = <<109, 46, 34, 110, 92, 120, 102, 102, 34>>
    /\ status_storage_infos[2].name = <<109, 46, 98, 49>>

\* C10: a run loads the config, queries the data source and writes the
\* report at most once each, and the terminus it reaches has exit code 0,
\* 127 or 1.
C10_SinglePassTerminus ==
    /\ loads <= 1
    /\ queries <= 1
    /\ writes <= 1
    /\ Terminal => proc_exit \in {Some(0), Some(127), Some(1)}

====
